---- MODULE Spec2Model ----
(***************************************************************************)
(* A model of the algo-trading-bot repository: the indicator pipeline and  *)
(* signal scorer (trading_strategy.py), the backtest replay loop with its  *)
(* position ledger and statistics (backtest.py) and the live tick handler  *)
(* (main.py, alpaca_trader.py).                                            *)
(*                                                                         *)
(* Arithmetic.  The program computes in IEEE doubles.  Prices and volumes  *)
(* are natural numbers here; ledger arithmetic (shares, cash, pnl, the     *)
(* stop-loss and take-profit tests) is exact, with percentages kept as     *)
(* fractions <<num, den>>.  Indicator columns are fixed-point numbers with *)
(* Scale units per price unit; a missing value (NaN) is the value NaN, and *)
(* every comparison with NaN is false, as in Python.                       *)
(***************************************************************************)
EXTENDS Integers, Sequences, FiniteSets, TLC

\* ------------------------------------------------------------------------
\* Program constants
\* ------------------------------------------------------------------------
\* Config.POSITION_SIZE_PCT = 0.1, kept as the fraction 1 / POSITION_SIZE_DEN
POSITION_SIZE_DEN == 10
\* Config.STOP_LOSS_PCT = 2.0 and Config.TAKE_PROFIT_PCT = 4.0 (percent)
STOP_LOSS_PCT == 2
TAKE_PROFIT_PCT == 4
\* run_backtest: minimum series length, first simulated index, window length
Warmup == 100
\* default periods and spans of the indicator functions
RSI_PERIOD == 14
MACD_FAST == 12
MACD_SLOW == 26
MACD_SIGNAL == 9
BB_PERIOD == 20
BB_STD == 2
EMA_FAST == 9
EMA_SLOW == 21
VOLUME_PERIOD == 20
\* scorer thresholds and weights; scores are counted in half points so that
\* the weights 1.5 stay integers: weight w is 2w, the threshold 5 is 10
RSI_OVERSOLD == 30
RSI_OVERBOUGHT == 70
W_RSI == 4
W_MACD == 4
W_BB == 3
W_EMA == 4
W_VOLUME == 3
W_TREND == 2
THRESHOLD == 10

\* ------------------------------------------------------------------------
\* Fixed-point numbers and NaN
\* ------------------------------------------------------------------------
\* units per price unit in an indicator column
Scale == 10^5
\* units per price unit in which the rolling standard deviation is taken
StdScale == 10^3
\* the missing value: outside the range of every column
NaN == -(2^30)

IsNaN(x) == x = NaN
\* Python comparisons: false when either side is NaN
Lt(a, b) == ~IsNaN(a) /\ ~IsNaN(b) /\ a < b
Gt(a, b) == ~IsNaN(a) /\ ~IsNaN(b) /\ a > b
Le(a, b) == ~IsNaN(a) /\ ~IsNaN(b) /\ a <= b
Ge(a, b) == ~IsNaN(a) /\ ~IsNaN(b) /\ a >= b

\* integer square root (floor), for the rolling standard deviation
RECURSIVE Isqrt(_)
Isqrt(n) ==
    IF n < 2 THEN n
    ELSE LET small == 2 * Isqrt(n \div 4)
             large == small + 1
         IN IF large * large > n THEN small ELSE large

RECURSIVE SumTo(_, _, _)
\* f[lo] + ... + f[hi]
SumTo(f, lo, hi) == IF hi < lo THEN 0 ELSE f[hi] + SumTo(f, lo, hi - 1)

\* ------------------------------------------------------------------------
\* Bar series.  A bar is [close, volume]; its timestamp is its index in the
\* series.  Indices are 0-based as in the program: Iloc(df, k) is df.iloc[k].
\* ------------------------------------------------------------------------
Iloc(df, k) == df[k + 1]
\* df.iloc[:k]
Head_(df, k) == SubSeq(df, 1, k)
\* df.tail(k)
TailOf(df, k) == IF Len(df) <= k THEN df ELSE SubSeq(df, Len(df) - k + 1, Len(df))
CloseCol(df) == [k \in 1..Len(df) |-> df[k].close]
VolumeCol(df) == [k \in 1..Len(df) |-> df[k].volume]

\* ------------------------------------------------------------------------
\* Indicator pipeline (trading_strategy.py)
\* ------------------------------------------------------------------------
\* One row of x.ewm(span, adjust=False).mean(): y[k] = a x[k] + (1 - a) y[k-1]
\* with a = 2 / (span + 1); `before` is y[k-1].  The first row is x[1] itself.
EwmStep(xk, span, before) == (2 * xk + (span - 1) * before) \div (span + 1)

\* close.diff(): NaN in the first row
Delta(close, k) == IF k = 1 THEN NaN ELSE close[k] - close[k - 1]
\* delta.where(delta > 0, 0) and -delta.where(delta < 0, 0): a NaN delta
\* fails the test and is replaced by 0
UpMove(close, k) == IF Gt(Delta(close, k), 0) THEN Delta(close, k) ELSE 0
DownMove(close, k) == IF Lt(Delta(close, k), 0) THEN 0 - Delta(close, k) ELSE 0

\* calculate_rsi, row k.  gain and loss are rolling means over `period` rows
\* (NaN until the window is full); their common divisor cancels in rs, so the
\* sums are used.  rs = gain / loss is NaN for 0/0 and +inf for gain/0, and
\* rsi = 100 - 100 / (1 + rs) = 100 gain / (gain + loss), 100 for rs = +inf.
calculate_rsi(close, k) ==
    IF k < RSI_PERIOD THEN NaN
    ELSE LET gain == SumTo([j \in 1..k |-> UpMove(close, j)], k - RSI_PERIOD + 1, k)
             loss == SumTo([j \in 1..k |-> DownMove(close, j)], k - RSI_PERIOD + 1, k)
         IN IF loss = 0
            THEN (IF gain = 0 THEN NaN ELSE 100 * Scale)
            ELSE (100 * Scale * gain) \div (gain + loss)

\* calculate_macd.  The three exponential means advance together, row by row.
\* Row 1: both means of close are close[1], so macd = 0 and macd_signal = 0.
MacdFirst(close) ==
    [ema_fast |-> close[1] * Scale, ema_slow |-> close[1] * Scale,
     macd |-> 0, macd_signal |-> 0]

MacdNext(close, k, before) ==
    LET ema_fast == EwmStep(close[k] * Scale, MACD_FAST, before.ema_fast)
        ema_slow == EwmStep(close[k] * Scale, MACD_SLOW, before.ema_slow)
    IN [ema_fast |-> ema_fast, ema_slow |-> ema_slow,
        macd |-> ema_fast - ema_slow,
        macd_signal |-> EwmStep(ema_fast - ema_slow, MACD_SIGNAL, before.macd_signal)]

RECURSIVE MacdRows(_, _, _, _)
\* the rows lo..hi, given the row `before` = lo - 1.  The rows are taken in
\* order; the range is halved only to keep the evaluation shallow.
MacdRows(close, lo, hi, before) ==
    IF lo > hi THEN <<>>
    ELSE IF lo = hi THEN <<MacdNext(close, lo, before)>>
    ELSE LET mid == (lo + hi) \div 2
             left == MacdRows(close, lo, mid, before)
         IN left \o MacdRows(close, mid + 1, hi, left[Len(left)])

\* the columns ema_fast, ema_slow, macd and macd_signal, one record per row
calculate_macd(close) ==
    IF Len(close) = 0 THEN <<>>
    ELSE <<MacdFirst(close)>> \o MacdRows(close, 2, Len(close), MacdFirst(close))

\* calculate_ema, likewise
EmaFirst(close) == [ema_fast |-> close[1] * Scale, ema_slow |-> close[1] * Scale]

EmaNext(close, k, before) ==
    [ema_fast |-> EwmStep(close[k] * Scale, EMA_FAST, before.ema_fast),
     ema_slow |-> EwmStep(close[k] * Scale, EMA_SLOW, before.ema_slow)]

RECURSIVE EmaRows(_, _, _, _)
EmaRows(close, lo, hi, before) ==
    IF lo > hi THEN <<>>
    ELSE IF lo = hi THEN <<EmaNext(close, lo, before)>>
    ELSE LET mid == (lo + hi) \div 2
             left == EmaRows(close, lo, mid, before)
         IN left \o EmaRows(close, mid + 1, hi, left[Len(left)])

\* the columns ema_fast and ema_slow, one record per row
calculate_ema(close) ==
    IF Len(close) = 0 THEN <<>>
    ELSE <<EmaFirst(close)>> \o EmaRows(close, 2, Len(close), EmaFirst(close))

\* calculate_bollinger_bands, row k: rolling mean and rolling sample standard
\* deviation (ddof = 1) over `period` rows, NaN until the window is full
calculate_bollinger_bands(close, k) ==
    IF k < BB_PERIOD THEN [bb_middle |-> NaN, bb_upper |-> NaN, bb_lower |-> NaN]
    ELSE LET n == BB_PERIOD
             s1 == SumTo(close, k - n + 1, k)
             s2 == SumTo([j \in 1..k |-> close[j] * close[j]], k - n + 1, k)
             \* variance = q / (n (n - 1))
             q == n * s2 - s1 * s1
             \* variance in StdScale^2 units, divided in two steps to stay in range
             var == ((q * 10 * StdScale) \div ((n * (n - 1)) \div 10)) * (StdScale \div 100)
             bb_std == Isqrt(var) * (Scale \div StdScale)
             bb_middle == (s1 * Scale) \div n
         IN [bb_middle |-> bb_middle,
             bb_upper |-> bb_middle + bb_std * BB_STD,
             bb_lower |-> bb_middle - bb_std * BB_STD]

\* calculate_volume_signal, row k: 1 / -1 on a volume above 1.5 times its
\* rolling mean with a rising / falling close, else 0.  volume_ma is NaN until
\* the window is full and close.shift(1) is NaN in the first row: both tests
\* are then false.  volume > volume_ma * 1.5 is compared exactly.
calculate_volume_signal(close, volume, k) ==
    LET n == VOLUME_PERIOD
        high == k >= n /\ 2 * n * volume[k] > 3 * SumTo(volume, k - n + 1, k)
    IN IF high /\ k > 1 /\ close[k] < close[k - 1] THEN -1
       ELSE IF high /\ k > 1 /\ close[k] > close[k - 1] THEN 1
       ELSE 0

\* Row k of the indicator table as the scorer reads it, from the columns m and
\* e of calculate_macd and calculate_ema.  close is in Scale units.
IndicatorRow(bars, k, m, e) ==
    LET close == CloseCol(bars)
        bb == calculate_bollinger_bands(close, k)
    IN [close |-> close[k] * Scale,
        rsi |-> calculate_rsi(close, k),
        macd |-> m[k].macd,
        macd_signal |-> m[k].macd_signal,
        bb_upper |-> bb.bb_upper,
        bb_lower |-> bb.bb_lower,
        ema_fast |-> e[k].ema_fast,
        ema_slow |-> e[k].ema_slow,
        volume_signal |-> calculate_volume_signal(close, VolumeCol(bars), k)]

\* df.iloc[-1] and df.iloc[-2] after the five calculate_* calls (lines 23-31),
\* for a frame of at least two rows
LatestRows(bars) ==
    LET n == Len(bars)
        m == calculate_macd(CloseCol(bars))
        e == calculate_ema(CloseCol(bars))
    IN [latest |-> IndicatorRow(bars, n, m, e),
        prev |-> IndicatorRow(bars, n - 1, m, e)]

\* ------------------------------------------------------------------------
\* Signal scorer (generate_signal, lines 33-81), scores in half points
\* ------------------------------------------------------------------------
buy_score(latest, prev) ==
      (IF Lt(latest.rsi, RSI_OVERSOLD * Scale) THEN W_RSI ELSE 0)
    + (IF Gt(latest.macd, latest.macd_signal) /\ Le(prev.macd, prev.macd_signal)
       THEN W_MACD ELSE 0)
    + (IF Lt(latest.close, latest.bb_lower) THEN W_BB ELSE 0)
    + (IF Gt(latest.ema_fast, latest.ema_slow) /\ Le(prev.ema_fast, prev.ema_slow)
       THEN W_EMA ELSE 0)
    + (IF latest.volume_signal = 1 THEN W_VOLUME ELSE 0)
    + (IF Gt(latest.close, latest.ema_slow) THEN W_TREND ELSE 0)

\* each sell test is the elif of the buy test of the same indicator
sell_score(latest, prev) ==
      (IF ~Lt(latest.rsi, RSI_OVERSOLD * Scale) /\ Gt(latest.rsi, RSI_OVERBOUGHT * Scale)
       THEN W_RSI ELSE 0)
    + (IF ~(Gt(latest.macd, latest.macd_signal) /\ Le(prev.macd, prev.macd_signal))
          /\ Lt(latest.macd, latest.macd_signal) /\ Ge(prev.macd, prev.macd_signal)
       THEN W_MACD ELSE 0)
    + (IF ~Lt(latest.close, latest.bb_lower) /\ Gt(latest.close, latest.bb_upper)
       THEN W_BB ELSE 0)
    + (IF ~(Gt(latest.ema_fast, latest.ema_slow) /\ Le(prev.ema_fast, prev.ema_slow))
          /\ Lt(latest.ema_fast, latest.ema_slow) /\ Ge(prev.ema_fast, prev.ema_slow)
       THEN W_EMA ELSE 0)
    + (IF latest.volume_signal # 1 /\ latest.volume_signal = -1 THEN W_VOLUME ELSE 0)
    + (IF ~Gt(latest.close, latest.ema_slow) /\ Lt(latest.close, latest.ema_slow)
       THEN W_TREND ELSE 0)

\* mutant of Decision: equal scores at the threshold select BUY
Decision_TieBuys(buy, sell) ==
    IF buy >= THRESHOLD /\ buy >= sell THEN "BUY"
    ELSE IF sell >= THRESHOLD /\ sell > buy THEN "SELL"
    ELSE "HOLD"

\* decision logic, lines 74-81
Decision(buy, sell) ==
    IF buy >= THRESHOLD /\ buy > sell THEN "BUY"
    ELSE IF sell >= THRESHOLD /\ sell > buy THEN "SELL"
    ELSE "HOLD"

Score(latest, prev) == Decision(buy_score(latest, prev), sell_score(latest, prev))

\* generate_signal(bars, symbol): df.iloc[-1] or df.iloc[-2] raises IndexError
\* on a frame of fewer than two rows, and the except clause returns HOLD
generate_signal(bars) ==
    IF Len(bars) < 2 THEN "HOLD"
    ELSE LET rows == LatestRows(bars) IN Score(rows.latest, rows.prev)

\* ------------------------------------------------------------------------
\* Backtest (backtest.py): the replay loop of run_backtest and its ledger
\* ------------------------------------------------------------------------
\* Python's None; an open position, a trade and a report are records
None == <<>>

\* A percentage as the fraction <<num, den>> with den > 0, compared exactly
Pct(num, den) == <<num, den>>
PctLe(p, x) == p[1] <= x * p[2]
PctGe(p, x) == p[1] >= x * p[2]

\* (current_price - entry_price) / entry_price * 100, lines 71 and 119
PnlPct(current_price, entry_price) ==
    Pct((current_price - entry_price) * 100, entry_price)

\* mutant of InsufficientData: a series one bar short is accepted
InsufficientData_OneShort(series) == series = None \/ Len(series) < Warmup - 1

\* bars is None or len(bars) < 100, line 37
InsufficientData(series) == series = None \/ Len(series) < Warmup

\* bars.iloc[:i+1], line 49
CurrentBars(series, k) == Head_(series, k + 1)

\* mutant of SignalWindow: the frame reaches one bar past the current one
SignalWindow_Lookahead(series, k) ==
    TailOf(Head_(series, IF k + 2 <= Len(series) THEN k + 2 ELSE Len(series)), Warmup)

\* the frame handed to generate_signal: current_bars.tail(100), line 54
SignalWindow(series, k) == TailOf(CurrentBars(series, k), Warmup)

\* mutant of PositionShares: the quotient is rounded up
PositionShares_RoundsUp(cash, current_price) ==
    (cash + POSITION_SIZE_DEN * current_price - 1) \div (POSITION_SIZE_DEN * current_price)

\* int((capital * POSITION_SIZE_PCT) / current_price), line 59: truncation of
\* a non-negative quotient
PositionShares(cash, current_price) == cash \div (POSITION_SIZE_DEN * current_price)

\* mutant of OpensOn: the branch does not test that no position is open
OpensOn_IgnoresPosition(sig, pos) == sig = "BUY"

\* line 57: the BUY branch is taken
OpensOn(sig, pos) == sig = "BUY" /\ pos = None

\* mutant of ExitReason: the stop-loss is tested before the SELL signal
ExitReason_StopLossFirst(sig, pnl_pct) ==
    IF PctLe(pnl_pct, 0 - STOP_LOSS_PCT) THEN "Stop-loss"
    ELSE IF sig = "SELL" THEN "SELL signal"
    ELSE IF PctGe(pnl_pct, TAKE_PROFIT_PCT) THEN "Take-profit"
    ELSE ""

\* mutant of ExitReason: the stop-loss test is missing
ExitReason_NoStopLoss(sig, pnl_pct) ==
    IF sig = "SELL" THEN "SELL signal"
    ELSE IF PctGe(pnl_pct, TAKE_PROFIT_PCT) THEN "Take-profit"
    ELSE ""

\* lines 73-84: the exit reason, "" when should_exit stays False
ExitReason(sig, pnl_pct) ==
    IF sig = "SELL" THEN "SELL signal"
    ELSE IF PctLe(pnl_pct, 0 - STOP_LOSS_PCT) THEN "Stop-loss"
    ELSE IF PctGe(pnl_pct, TAKE_PROFIT_PCT) THEN "Take-profit"
    ELSE ""

\* mutant of FinalPrice: the close of the bar before the last
FinalPrice_Previous(series) == Iloc(series, Len(series) - 2).close

\* bars['close'].iloc[-1], line 116
FinalPrice(series) == Iloc(series, Len(series) - 1).close

\* mutant of TradeRecord: pnl is taken from exit to entry
TradeRecord_PnlReversed(pos, exit_date, exit_price, reason) ==
    [entry_date |-> pos.entry_date,
     exit_date |-> exit_date,
     entry_price |-> pos.entry_price,
     exit_price |-> exit_price,
     shares |-> pos.shares,
     pnl |-> (pos.entry_price - exit_price) * pos.shares,
     pnl_pct |-> PnlPct(exit_price, pos.entry_price),
     reason |-> reason]

\* mutant of TradeRecord: pnl is the price difference of one share
TradeRecord_PnlPerShare(pos, exit_date, exit_price, reason) ==
    [entry_date |-> pos.entry_date,
     exit_date |-> exit_date,
     entry_price |-> pos.entry_price,
     exit_price |-> exit_price,
     shares |-> pos.shares,
     pnl |-> exit_price - pos.entry_price,
     pnl_pct |-> PnlPct(exit_price, pos.entry_price),
     reason |-> reason]

\* the trade record appended on an exit, lines 91-100 and 121-130
TradeRecord(pos, exit_date, exit_price, reason) ==
    [entry_date |-> pos.entry_date,
     exit_date |-> exit_date,
     entry_price |-> pos.entry_price,
     exit_price |-> exit_price,
     shares |-> pos.shares,
     pnl |-> (exit_price - pos.entry_price) * pos.shares,
     pnl_pct |-> PnlPct(exit_price, pos.entry_price),
     reason |-> reason]

\* mutant of EquitySnapshot: the open position is not valued
EquitySnapshot_CashOnly(cash, pos, current_price, current_date) ==
    [date |-> current_date, equity |-> cash]

\* lines 105-112
EquitySnapshot(cash, pos, current_price, current_date) ==
    [date |-> current_date,
     equity |-> IF pos # None THEN cash + pos.shares * current_price ELSE cash]

\* One iteration of the replay loop (lines 48-112) on bar k of `series`, from
\* the ledger st = [capital, position, trades, equity_curve, signals, log].
\* signals holds the value of the local `signal` on every bar so far, and
\* log the BUY and SELL lines written by logger.info (lines 67, 102).
LoopBody(st, series, k) ==
    LET current_bars == CurrentBars(series, k)
        current_price == Iloc(current_bars, Len(current_bars) - 1).close
        current_date == Len(current_bars) - 1
        sig == generate_signal(SignalWindow(series, k))
        shares == PositionShares(st.capital, current_price)
        pnl_pct == PnlPct(current_price, st.position.entry_price)
        exit_reason == ExitReason(sig, pnl_pct)
        after ==
            IF OpensOn(sig, st.position)
            THEN IF shares > 0
                 THEN [st EXCEPT
                         !.position = [entry_price |-> current_price,
                                       shares |-> shares,
                                       entry_date |-> current_date],
                         !.capital = st.capital - shares * current_price,
                         !.log = Append(st.log, [event |-> "BUY", shares |-> shares,
                                                 price |-> current_price,
                                                 date |-> current_date])]
                 ELSE st
            ELSE IF st.position # None /\ exit_reason # ""
            THEN [st EXCEPT
                    !.capital = st.capital + st.position.shares * current_price,
                    !.trades = Append(st.trades,
                                      TradeRecord(st.position, current_date,
                                                  current_price, exit_reason)),
                    !.log = Append(st.log, [event |-> "SELL",
                                            shares |-> st.position.shares,
                                            price |-> current_price,
                                            date |-> current_date]),
                    !.position = None]
            ELSE st
    IN [after EXCEPT
          !.signals = Append(st.signals, sig),
          !.equity_curve = Append(st.equity_curve,
                                  EquitySnapshot(after.capital, after.position,
                                                 current_price, current_date))]

\* ------------------------------------------------------------------------
\* Statistics (calculate_statistics).  Ratios are fractions <<num, den>>.
\* ------------------------------------------------------------------------
Frac(num, den) == <<num, den>>
FracLess(a, b) == a[1] * b[2] < b[1] * a[2]
Abs(x) == IF x < 0 THEN 0 - x ELSE x

RECURSIVE CountWhere(_, _, _)
\* the number of trades among the first k whose pnl has the sign sgn
CountWhere(trds, k, sgn) ==
    IF k = 0 THEN 0
    ELSE CountWhere(trds, k - 1, sgn)
         + (IF trds[k].pnl * sgn > 0 THEN 1 ELSE 0)

RECURSIVE SumWhere(_, _, _)
SumWhere(trds, k, sgn) ==
    IF k = 0 THEN 0
    ELSE SumWhere(trds, k - 1, sgn)
         + (IF trds[k].pnl * sgn > 0 THEN trds[k].pnl ELSE 0)

RECURSIVE Cummax(_, _)
\* equity.cummax() at row k
Cummax(curve, k) ==
    IF k = 1 THEN curve[1].equity
    ELSE LET before == Cummax(curve, k - 1)
         IN IF curve[k].equity > before THEN curve[k].equity ELSE before

\* (equity - peak) / peak * 100 at row k
Drawdown(curve, k) ==
    LET peak == Cummax(curve, k)
    IN Frac((curve[k].equity - peak) * 100, peak)

RECURSIVE MinDrawdown(_, _)
\* drawdown.min() over the rows 1..k, k >= 1
MinDrawdown(curve, k) ==
    IF k = 1 THEN Drawdown(curve, 1)
    ELSE LET before == MinDrawdown(curve, k - 1)
             here == Drawdown(curve, k)
         IN IF FracLess(here, before) THEN here ELSE before

\* lines 172-209; the two frames trades_df and equity_df are the lists
calculate_statistics(trds, curve, initial, final) ==
    IF trds = <<>> THEN None
    ELSE LET total_trades == Len(trds)
             winning_trades == CountWhere(trds, Len(trds), 1)
             losing_trades == CountWhere(trds, Len(trds), -1)
             avg_win == IF winning_trades > 0
                        THEN Frac(SumWhere(trds, Len(trds), 1), winning_trades)
                        ELSE Frac(0, 1)
             avg_loss == IF losing_trades > 0
                         THEN Frac(SumWhere(trds, Len(trds), -1), losing_trades)
                         ELSE Frac(0, 1)
         IN [initial_capital |-> initial,
             final_capital |-> final,
             total_return |-> Frac((final - initial) * 100, initial),
             total_trades |-> total_trades,
             winning_trades |-> winning_trades,
             losing_trades |-> losing_trades,
             win_rate |-> IF total_trades > 0
                          THEN Frac(winning_trades * 100, total_trades)
                          ELSE Frac(0, 1),
             avg_win |-> avg_win,
             avg_loss |-> avg_loss,
             profit_factor |-> IF avg_loss[1] # 0
                               THEN Frac(Abs(avg_win[1] * avg_loss[2]),
                                         Abs(avg_loss[1] * avg_win[2]))
                               ELSE Frac(0, 1),
             max_drawdown |-> IF curve = <<>> THEN Frac(NaN, 1)
                              ELSE MinDrawdown(curve, Len(curve)),
             trades |-> trds,
             equity_curve |-> curve]

\* ------------------------------------------------------------------------
\* Live tick handler (main.py) and the broker gateway (alpaca_trader.py).
\* One symbol is followed.  The live state is the record
\* st = [broker_position, active_positions, orders, branch]: the position the
\* broker holds (None or [qty, cost], avg_entry_price being cost / qty), the
\* driver's active_positions entry of the symbol (None when absent), the
\* requests handed to trading_client.submit_order so far, and the branch the
\* tick took: "buy" (line 82), "sell" (line 84), "stop-loss" (line 155),
\* "take-profit" (line 160), or "" when it took none.
\* ------------------------------------------------------------------------
\* a limit price that is None or 0: both are false in `and limit_price`
NoPrice == 0

\* side.lower() on the spellings used
Lower(side) ==
    CASE side = "BUY" -> "buy"
      [] side = "Buy" -> "buy"
      [] side = "SELL" -> "sell"
      [] side = "Sell" -> "sell"
      [] side = "HOLD" -> "hold"
      [] OTHER -> side

\* get_position: the broker's position of the symbol; the lookup raises when
\* there is none or when the call fails, and the bare except returns None
get_position(broker_pos, lookup_ok) == IF lookup_ok THEN broker_pos ELSE None

\* place_order: `request` is what reaches trading_client.submit_order (None
\* when the function returns before line 122), `order` what is returned:
\* submit_order raises when order_ok is false and the except returns None
place_order(qty, side, order_type, limit_price, order_ok) ==
    LET order_side == IF Lower(side) = "buy" THEN "BUY" ELSE "SELL"
        order_data == [qty |-> qty, side |-> order_side, type |-> order_type,
                       limit_price |-> IF order_type = "limit" THEN limit_price
                                       ELSE NoPrice]
    IN IF order_type = "market" \/ (order_type = "limit" /\ limit_price # NoPrice)
       THEN [request |-> order_data,
             order |-> IF order_ok THEN order_data ELSE None]
       ELSE [request |-> None, order |-> None]

\* the broker fills an accepted market order at once, at the tick's price
Fill(broker_pos, order, price) ==
    IF order.side = "BUY"
    THEN IF broker_pos = None
         THEN [qty |-> order.qty, cost |-> order.qty * price]
         ELSE [qty |-> broker_pos.qty + order.qty,
               cost |-> broker_pos.cost + order.qty * price]
    ELSE None

\* the live state after place_order returned `placed`
AfterOrder(st, placed, price) ==
    IF placed.request = None THEN st
    ELSE [st EXCEPT
            !.orders = Append(@, [request |-> placed.request,
                                  accepted |-> placed.order # None]),
            !.broker_position = IF placed.order # None
                                THEN Fill(@, placed.order, price) ELSE @]

\* int((buying_power * POSITION_SIZE_PCT) / price), lines 98-99
PositionSize(buying_power, price) == buying_power \div (POSITION_SIZE_DEN * price)

\* execute_buy; `account` is what get_account returned, None on a failure:
\* account.buying_power then raises and the except (line 121) ends the call
execute_buy(st, price, now, account, order_ok) ==
    IF account = None THEN st
    ELSE LET position_size == PositionSize(account.buying_power, price)
             placed == place_order(position_size, "buy", "market", NoPrice, order_ok)
             sent == AfterOrder(st, placed, price)
         IN IF position_size < 1 THEN st
            ELSE IF placed.order # None
            THEN [sent EXCEPT !.active_positions =
                                 [entry_price |-> price, qty |-> position_size,
                                  entry_time |-> now]]
            ELSE sent

\* execute_sell: the whole quantity of the position seen is sold
execute_sell(st, price, pos, order_ok) ==
    LET placed == place_order(pos.qty, "sell", "market", NoPrice, order_ok)
        sent == AfterOrder(st, placed, price)
    IN IF placed.order # None
       THEN [sent EXCEPT !.active_positions = None]
       ELSE sent

\* check_exit_conditions: stop-loss, then take-profit, on the broker's
\* average entry price
check_exit_conditions(st, current_price, pos, order_ok) ==
    LET pnl_pct == Pct((current_price * pos.qty - pos.cost) * 100, pos.cost)
    IN IF PctLe(pnl_pct, 0 - STOP_LOSS_PCT)
       THEN execute_sell([st EXCEPT !.branch = "stop-loss"], current_price, pos, order_ok)
       ELSE IF PctGe(pnl_pct, TAKE_PROFIT_PCT)
       THEN execute_sell([st EXCEPT !.branch = "take-profit"], current_price, pos, order_ok)
       ELSE st

\* process_symbol on one tick: `fetched` is what get_bars returned (None and
\* the empty frame are both <<>>: line 70 treats them alike)
process_symbol(st, fetched, now, lookup_ok, account, order_ok) ==
    IF fetched = None \/ Len(fetched) = 0 THEN st
    ELSE LET pos == get_position(st.broker_position, lookup_ok)
             current_price == Iloc(fetched, Len(fetched) - 1).close
             sig == generate_signal(fetched)
         IN IF sig = "BUY" /\ pos = None
            THEN execute_buy([st EXCEPT !.branch = "buy"], current_price, now,
                             account, order_ok)
            ELSE IF sig = "SELL" /\ pos # None
            THEN execute_sell([st EXCEPT !.branch = "sell"], current_price,
                              pos, order_ok)
            ELSE IF pos # None
            THEN check_exit_conditions(st, current_price, pos, order_ok)
            ELSE st

\* ------------------------------------------------------------------------
\* Inputs of the model
\* ------------------------------------------------------------------------
\* the most bars replayed after the first Warmup bars
MaxSim == 3

Bar(c, v) == [close |-> c, volume |-> v]

\* Warmup quiet bars: a flat close on a constant volume
History == [k \in 1..Warmup |-> Bar(100, 10)]

\* the bars that can follow: falls and rises of 1 to 10 percent, the rises
\* from the low on a tripled volume
TailBars == {Bar(90, 10), Bar(91, 30), Bar(92, 30), Bar(99, 10), Bar(100, 10), Bar(101, 10)}

Tails == UNION {[1..n -> TailBars] : n \in 0..MaxSim}

\* what get_historical_data can return: None, too short a series, or a
\* series of at least Warmup bars
BarSeries == {None, SubSeq(History, 1, Warmup - 1)} \cup {History \o t : t \in Tails}

InitialCapitals == {10000, 1000}

\* the most ticks the live driver handles
MaxTicks == 2

\* what get_bars can return on a tick: nothing, or a short series; the closes
\* are given
Fetch(closes) == [k \in 1..Len(closes) |-> Bar(closes[k], 10)]
LiveFetches ==
    {Fetch(<<>>), Fetch(<<98>>), Fetch(<<101>>), Fetch(<<106>>),
     Fetch(<<98, 101>>), Fetch(<<101, 98>>), Fetch(<<106, 101>>),
     Fetch(<<101, 106>>), Fetch(<<96, 98>>)}

\* what get_account can return: None on a failure, else the buying power
Accounts == {None, [buying_power |-> 50], [buying_power |-> 10000]}

\* what the broker holds when the driver starts
BrokerPositions == {None, [qty |-> 9, cost |-> 909]}

\* Indicator rows handed to the scorer: every relation the scorer tests, with
\* the values on and off its thresholds and the missing values the pipeline
\* can produce (rsi, the bands)
ScorerLatest ==
    {[close |-> c, rsi |-> r, macd |-> m, macd_signal |-> 0,
      bb_upper |-> b[2], bb_lower |-> b[1],
      ema_fast |-> f, ema_slow |-> 20, volume_signal |-> v] :
        c \in {10, 20, 30},
        r \in {NaN, 29 * Scale, 30 * Scale, 70 * Scale, 71 * Scale},
        m \in {-1, 0, 1},
        b \in {<<NaN, NaN>>, <<12, 28>>},
        f \in {15, 20, 25},
        v \in {-1, 0, 1}}

ScorerPrev ==
    {[macd |-> m, macd_signal |-> 0, ema_fast |-> f, ema_slow |-> 20] :
        m \in {-1, 0, 1}, f \in {15, 20, 25}}

\* the calls of place_order: the sides and order types in the spellings a
\* caller may use, with and without a limit price, accepted by the broker or
\* not
OrderCalls ==
    [qty : {1, 5},
     side : {"buy", "Buy", "BUY", "sell", "SELL", "hold", "short", ""},
     order_type : {"market", "limit", "stop"},
     limit_price : {NoPrice, 100},
     order_ok : BOOLEAN]

\* the most bars replayed by the two runs that are compared
MaxCausal == 2

CausalBars == {Bar(90, 10), Bar(100, 10), Bar(101, 10)}

CausalSeries ==
    {History \o t : t \in UNION {[1..n -> CausalBars] : n \in 0..MaxCausal}}

\* ------------------------------------------------------------------------
\* State
\* ------------------------------------------------------------------------
VARIABLES
    pc,               \* "start", "loop", "stats", "done": run_backtest;
                      \* "live": the live driver; "scorer": one scorer call;
                      \* "causal-start", "causal-loop": two replays side by side;
                      \* "order", "ordered": one call of place_order
    bars,             \* backtest: the series returned by get_historical_data
    initial_capital,  \* backtest: the argument of run_backtest
    i,                \* backtest: the loop index, 0-based
    capital,          \* backtest: cash
    position,         \* backtest: None or [entry_price, shares, entry_date]
    trades,           \* backtest: the list of trade records
    equity_curve,     \* backtest: the list of [date, equity]
    signals,          \* backtest: the signal of every bar replayed so far
    log,              \* backtest: the BUY / SELL lines logged
    results,          \* backtest: the value returned, None until then
    tick,             \* live: the number of ticks handled
    broker_position,  \* live: the position the broker holds
    active_positions, \* live: the driver's entry for the symbol
    orders,           \* live: the requests handed to submit_order
    last_tick,        \* live: what the last tick fetched, saw and did
    order_call,       \* gateway: the arguments of a call of place_order
    order_returned,   \* gateway: what that call returned
    latest_row,       \* scorer: df.iloc[-1]
    prev_row,         \* scorer: df.iloc[-2]
    signal,           \* scorer: the value returned, "" until then
    bars_b,           \* second replay: its series
    ledger_b          \* second replay: its ledger

btVars == <<bars, initial_capital, i, capital, position, trades,
            equity_curve, signals, log, results>>
liveVars == <<tick, broker_position, active_positions, orders, last_tick,
              order_call, order_returned>>
scVars == <<latest_row, prev_row, signal>>
caVars == <<bars_b, ledger_b>>

vars == <<pc, btVars, liveVars, scVars, caVars>>

Ledger ==
    [capital |-> capital, position |-> position, trades |-> trades,
     equity_curve |-> equity_curve, signals |-> signals, log |-> log]

\* the parts of the state a run does not use
IdleBacktest ==
    /\ bars = None /\ initial_capital = 0 /\ i = 0 /\ capital = 0
    /\ position = None /\ trades = <<>> /\ equity_curve = <<>>
    /\ signals = <<>> /\ log = <<>> /\ results = None
IdleLive ==
    /\ tick = 0 /\ broker_position = None /\ active_positions = None
    /\ orders = <<>> /\ last_tick = None
    /\ order_call = None /\ order_returned = None
IdleScorer == latest_row = None /\ prev_row = None /\ signal = ""
IdleCausal == bars_b = None /\ ledger_b = None

InitBacktest ==
    /\ pc = "start"
    /\ bars \in BarSeries
    /\ initial_capital \in InitialCapitals
    /\ i = 0
    /\ capital = 0
    /\ position = None
    /\ trades = <<>>
    /\ equity_curve = <<>>
    /\ signals = <<>>
    /\ log = <<>>
    /\ results = None
    /\ IdleLive /\ IdleScorer /\ IdleCausal

\* TradingBot.__init__: no active position is recorded, whatever the broker
\* holds
InitLive ==
    /\ pc = "live"
    /\ tick = 0
    /\ broker_position \in BrokerPositions
    /\ active_positions = None
    /\ orders = <<>>
    /\ last_tick = None
    /\ order_call = None
    /\ order_returned = None
    /\ IdleBacktest /\ IdleScorer /\ IdleCausal

\* lines 35-45: the length check and the initial ledger
Start ==
    /\ pc = "start"
    /\ IF InsufficientData(bars)
       THEN /\ pc' = "done"
            /\ results' = None
            /\ UNCHANGED <<i, capital, position, trades, equity_curve>>
       ELSE /\ pc' = "loop"
            /\ i' = Warmup
            /\ capital' = initial_capital
            /\ position' = None
            /\ trades' = <<>>
            /\ equity_curve' = <<>>
            /\ UNCHANGED results
    /\ UNCHANGED <<bars, initial_capital, signals, log>>
    /\ UNCHANGED <<liveVars, scVars, caVars>>

\* lines 48-112: the loop body for bar i
SimulateBar ==
    /\ pc = "loop"
    /\ i < Len(bars)
    /\ \E after \in {LoopBody(Ledger, bars, i)} :
          /\ capital' = after.capital
          /\ position' = after.position
          /\ trades' = after.trades
          /\ equity_curve' = after.equity_curve
          /\ signals' = after.signals
          /\ log' = after.log
    /\ i' = i + 1
    /\ UNCHANGED <<bars, initial_capital, pc, results>>
    /\ UNCHANGED <<liveVars, scVars, caVars>>

\* lines 114-130, after the last bar: close any open position.  The local
\* `position` is not reset: nothing reads it afterwards.
CloseOpenPosition ==
    /\ pc = "loop"
    /\ i >= Len(bars)
    /\ IF position # None
       THEN LET final_price == FinalPrice(bars)
            IN /\ capital' = capital + position.shares * final_price
               /\ trades' = Append(trades,
                                   TradeRecord(position, Len(bars) - 1, final_price,
                                               "End of backtest"))
       ELSE UNCHANGED <<capital, trades>>
    /\ pc' = "stats"
    /\ UNCHANGED <<bars, initial_capital, i, position, equity_curve, signals, log, results>>
    /\ UNCHANGED <<liveVars, scVars, caVars>>

\* lines 132-136: the report is computed and returned
Finish ==
    /\ pc = "stats"
    /\ results' = calculate_statistics(trades, equity_curve, initial_capital, capital)
    /\ pc' = "done"
    /\ UNCHANGED <<bars, initial_capital, i, capital, position, trades,
                   equity_curve, signals, log>>
    /\ UNCHANGED <<liveVars, scVars, caVars>>

LiveState ==
    [broker_position |-> broker_position, active_positions |-> active_positions,
     orders |-> orders, branch |-> ""]

\* one pass of the loop of run (lines 52-53) for the symbol: process_symbol
\* with what the collaborators return on this tick
ProcessSymbol ==
    /\ pc = "live"
    /\ tick < MaxTicks
    /\ \E fetched \in LiveFetches, lookup_ok \in BOOLEAN,
          account \in Accounts, order_ok \in BOOLEAN :
          \E after \in {process_symbol(LiveState, fetched, tick, lookup_ok,
                                       account, order_ok)} :
             /\ broker_position' = after.broker_position
             /\ active_positions' = after.active_positions
             /\ orders' = after.orders
             /\ last_tick' =
                   [bars |-> fetched,
                    lookup_ok |-> lookup_ok,
                    position |-> IF fetched = <<>> THEN None
                                 ELSE get_position(broker_position, lookup_ok),
                    signal |-> IF fetched = <<>> THEN ""
                               ELSE generate_signal(fetched),
                    account |-> account,
                    branch |-> after.branch,
                    submitted |-> Len(after.orders) - Len(orders)]
    /\ tick' = tick + 1
    /\ UNCHANGED <<pc, order_call, order_returned, btVars, scVars, caVars>>

Init == InitBacktest \/ InitLive

Next ==
    \/ Start
    \/ SimulateBar
    \/ CloseOpenPosition
    \/ Finish
    \/ ProcessSymbol

Spec == Init /\ [][Next]_vars

\* ------------------------------------------------------------------------
\* The scorer alone: one call on a pair of indicator rows
\* ------------------------------------------------------------------------
InitScorer ==
    /\ pc = "scorer"
    /\ latest_row \in ScorerLatest
    /\ prev_row \in ScorerPrev
    /\ signal = ""
    /\ IdleBacktest /\ IdleLive /\ IdleCausal

\* lines 33-81 on the rows read at lines 30-31
GenerateSignal ==
    /\ pc = "scorer"
    /\ signal = ""
    /\ signal' = Score(latest_row, prev_row)
    /\ UNCHANGED <<pc, latest_row, prev_row, btVars, liveVars, caVars>>

NextScorer == GenerateSignal

SpecScorer == InitScorer /\ [][NextScorer]_vars

\* ------------------------------------------------------------------------
\* Two replays side by side, on two series, bar by bar
\* ------------------------------------------------------------------------
InitCausal ==
    /\ pc = "causal-start"
    /\ bars \in CausalSeries
    /\ bars_b \in CausalSeries
    /\ initial_capital = 10000
    /\ i = 0
    /\ capital = 0
    /\ position = None
    /\ trades = <<>>
    /\ equity_curve = <<>>
    /\ signals = <<>>
    /\ log = <<>>
    /\ results = None
    /\ ledger_b = None
    /\ IdleLive /\ IdleScorer

\* lines 42-45, in both runs
StartBoth ==
    /\ pc = "causal-start"
    /\ pc' = "causal-loop"
    /\ i' = Warmup
    /\ capital' = initial_capital
    /\ ledger_b' = [capital |-> initial_capital, position |-> None, trades |-> <<>>,
                    equity_curve |-> <<>>, signals |-> <<>>, log |-> <<>>]
    /\ UNCHANGED <<bars, bars_b, initial_capital, position, trades, equity_curve,
                   signals, log, results>>
    /\ UNCHANGED <<liveVars, scVars>>

\* lines 48-112 for bar i, in both runs
SimulateBoth ==
    /\ pc = "causal-loop"
    /\ i < Len(bars)
    /\ i < Len(bars_b)
    /\ \E after \in {LoopBody(Ledger, bars, i)} :
          /\ capital' = after.capital
          /\ position' = after.position
          /\ trades' = after.trades
          /\ equity_curve' = after.equity_curve
          /\ signals' = after.signals
          /\ log' = after.log
    /\ ledger_b' = LoopBody(ledger_b, bars_b, i)
    /\ i' = i + 1
    /\ UNCHANGED <<pc, bars, bars_b, initial_capital, results>>
    /\ UNCHANGED <<liveVars, scVars>>

NextCausal == StartBoth \/ SimulateBoth

SpecCausal == InitCausal /\ [][NextCausal]_vars

\* ------------------------------------------------------------------------
\* The gateway alone: one call of place_order
\* ------------------------------------------------------------------------
InitOrder ==
    /\ pc = "order"
    /\ order_call \in OrderCalls
    /\ order_returned = None
    /\ tick = 0
    /\ broker_position = None
    /\ active_positions = None
    /\ orders = <<>>
    /\ last_tick = None
    /\ IdleBacktest /\ IdleScorer /\ IdleCausal

\* alpaca_trader.py lines 98-128; orders is what submit_order (line 122) was
\* handed
PlaceOrder ==
    /\ pc = "order"
    /\ \E placed \in {place_order(order_call.qty, order_call.side, order_call.order_type,
                                   order_call.limit_price, order_call.order_ok)} :
          /\ orders' = IF placed.request = None THEN orders
                        ELSE Append(orders, [request |-> placed.request,
                                             accepted |-> placed.order # None])
          /\ order_returned' = placed.order
    /\ pc' = "ordered"
    /\ UNCHANGED <<order_call, tick, broker_position, active_positions, last_tick>>
    /\ UNCHANGED <<btVars, scVars, caVars>>

NextOrder == PlaceOrder

SpecOrder == InitOrder /\ [][NextOrder]_vars

\* ------------------------------------------------------------------------
\* Vocabulary of the properties
\* ------------------------------------------------------------------------
\* the step replays bar i of the series
BarStep == pc = "loop" /\ i' = i + 1

\* the step is the one after the last bar
AfterLoopStep == pc = "loop" /\ pc' = "stats"

\* the signal computed on the bar replayed by the step
StepSignal == signals'[Len(signals')]

\* the close of the bar replayed by the step
StepPrice == Iloc(bars, i).close

\* the number of positions opened so far: one BUY line is logged per opening
Opened == Cardinality({k \in 1..Len(log) : log[k].event = "BUY"})

\* the stop-loss and take-profit breaches of section 4.3, for an open position
StopLossBreach(price, entry) == (price - entry) * 100 <= (0 - STOP_LOSS_PCT) * entry
TakeProfitBreach(price, entry) == (price - entry) * 100 >= TAKE_PROFIT_PCT * entry

LastTrade(trds) == trds[Len(trds)]

\* the trade t closes the position pos at the price and date given
Closes(t, pos, price, date) ==
    /\ t.entry_price = pos.entry_price
    /\ t.shares = pos.shares
    /\ t.entry_date = pos.entry_date
    /\ t.exit_price = price
    /\ t.exit_date = date
    /\ t.pnl = (price - pos.entry_price) * pos.shares

\* the step handles one tick of the live driver
TickStep == pc = "live" /\ tick' = tick + 1

\* the close the tick trades on: the last close fetched
TickPrice(t) == Iloc(t.bars, Len(t.bars) - 1).close

\* the breaches for the broker's position pos, whose average entry price is
\* pos.cost / pos.qty
LiveStopLossBreach(price, pos) ==
    (price * pos.qty - pos.cost) * 100 <= (0 - STOP_LOSS_PCT) * pos.cost
LiveTakeProfitBreach(price, pos) ==
    (price * pos.qty - pos.cost) * 100 >= TAKE_PROFIT_PCT * pos.cost

\* the trades already recorded are kept and one is added
OneTradeAdded == Len(trades') = Len(trades) + 1 /\ SubSeq(trades', 1, Len(trades)) = trades

\* ------------------------------------------------------------------------
\* C1
\* ------------------------------------------------------------------------
C1_BuyWhileLong ==
    BarStep /\ StepSignal = "BUY" /\ position # None =>
        /\ position' \in {position, None}
        /\ Opened' = Opened
        /\ position' = None <=>
               \/ StopLossBreach(StepPrice, position.entry_price)
               \/ TakeProfitBreach(StepPrice, position.entry_price)
        /\ position' = position =>
               capital' = capital /\ trades' = trades /\ log' = log

C1_SellWhileFlat ==
    BarStep /\ StepSignal = "SELL" /\ position = None =>
        position' = None /\ capital' = capital /\ trades' = trades /\ log' = log

C1_AtMostOneOpen ==
    pc = "loop" =>
        Opened - Len(trades) = (IF position # None THEN 1 ELSE 0)

\* C1: a BUY bar while a position is open opens no second position and leaves
\* the open position's shares, entry price and entry time as they are (the bar
\* is handled as a HOLD bar: only a stop-loss or take-profit breach closes the
\* position); a SELL bar while no position is open changes neither position,
\* cash nor trades; so during the replay at most one position is open: the
\* positions opened and not yet closed number 1 when one is held, else 0.
C1_SinglePosition ==
    /\ [](C1_AtMostOneOpen)
    /\ [][C1_BuyWhileLong /\ C1_SellWhileFlat]_vars

\* a BUY signal has arrived on a bar after the one that opened the position
\* still held
C1_Witness ==
    /\ pc = "loop"
    /\ position # None
    /\ signals # <<>>
    /\ signals[Len(signals)] = "BUY"
    /\ position.entry_date < i - 1

\* ------------------------------------------------------------------------
\* C2
\* ------------------------------------------------------------------------
C2_StopClosesWith(reason_of) ==
    BarStep /\ position # None /\ StopLossBreach(StepPrice, position.entry_price) =>
        /\ position' = None
        /\ Len(trades') = Len(trades) + 1
        /\ Closes(LastTrade(trades'), position, StepPrice, i)
        /\ LastTrade(trades').reason = reason_of[StepSignal]

\* C2 as stated: on every bar with an open position and a stop-loss breach
\* the position is closed at that bar with exit reason STOP_LOSS, whatever the
\* signal of the bar.
C2_Original ==
    [][C2_StopClosesWith([sig \in {"BUY", "SELL", "HOLD"} |-> "Stop-loss"])]_vars

\* C2 amended: on every bar with an open position and a stop-loss breach the
\* position is closed at that bar; the exit reason recorded is STOP_LOSS when
\* the signal of the bar is BUY or HOLD and SELL_SIGNAL when it is SELL.
C2_StopLossCloses ==
    [][C2_StopClosesWith([sig \in {"BUY", "SELL", "HOLD"} |->
                            IF sig = "SELL" THEN "SELL signal" ELSE "Stop-loss"])]_vars

\* a position has been closed by the stop-loss on a bar whose signal was not
\* SELL
C2_Witness ==
    /\ trades # <<>>
    /\ LastTrade(trades).reason = "Stop-loss"
    /\ signals[LastTrade(trades).exit_date - Warmup + 1] = "HOLD"
    /\ StopLossBreach(LastTrade(trades).exit_price, LastTrade(trades).entry_price)

\* ------------------------------------------------------------------------
\* C3
\* ------------------------------------------------------------------------
\* the name of the first of the three exit conditions that is true, taken in
\* the order SELL signal, stop-loss, take-profit; "" when none is
C3_FirstTrue(sell, stop, take, names) ==
    IF sell THEN names[1]
    ELSE IF stop THEN names[2]
    ELSE IF take THEN names[3]
    ELSE ""

C3_Backtest ==
    BarStep /\ position # None =>
        LET first == C3_FirstTrue(StepSignal = "SELL",
                                  StopLossBreach(StepPrice, position.entry_price),
                                  TakeProfitBreach(StepPrice, position.entry_price),
                                  <<"SELL signal", "Stop-loss", "Take-profit">>)
        IN IF first = ""
           THEN position' = position /\ trades' = trades
           ELSE position' = None /\ OneTradeAdded /\ LastTrade(trades').reason = first

C3_Live ==
    TickStep /\ last_tick'.position # None =>
        LET seen == last_tick'.position
            first == C3_FirstTrue(last_tick'.signal = "SELL",
                                  LiveStopLossBreach(TickPrice(last_tick'), seen),
                                  LiveTakeProfitBreach(TickPrice(last_tick'), seen),
                                  <<"sell", "stop-loss", "take-profit">>)
        IN /\ last_tick'.branch = first
           /\ IF first = ""
              THEN orders' = orders
              ELSE /\ Len(orders') = Len(orders) + 1
                   /\ orders'[Len(orders')].request.side = "SELL"
                   /\ orders'[Len(orders')].request.qty = seen.qty

\* C3: on every bar replayed while a position is open the exit conditions are
\* taken in the order SELL signal, stop-loss breach, take-profit breach: the
\* position is closed with the reason of the first one that is true and stays
\* open, with no trade recorded, when none is.  The live tick handler takes
\* the same order on a tick that sees a position: it sells on a SELL signal,
\* else on a stop-loss breach, else on a take-profit breach, and else submits
\* nothing.
C3_ExitOrder == [][C3_Backtest /\ C3_Live]_vars

\* a position has been closed on a bar where both the SELL signal and the
\* stop-loss breach were true, with the reason of the SELL signal
C3_Witness ==
    /\ trades # <<>>
    /\ LastTrade(trades).reason = "SELL signal"
    /\ signals[LastTrade(trades).exit_date - Warmup + 1] = "SELL"
    /\ StopLossBreach(LastTrade(trades).exit_price, LastTrade(trades).entry_price)

\* ------------------------------------------------------------------------
\* C4
\* ------------------------------------------------------------------------
C4_Reasons == {"SELL signal", "Stop-loss", "Take-profit", "End of backtest"}

\* a bar closes the open position exactly when it appends one trade, and the
\* trade is of that position at that bar's close
C4_OnBar ==
    BarStep =>
        IF position # None /\ position' = None
        THEN /\ OneTradeAdded
             /\ Closes(LastTrade(trades'), position, StepPrice, i)
             /\ capital' = capital + position.shares * StepPrice
             /\ LastTrade(trades').reason \in C4_Reasons \ {"End of backtest"}
        ELSE trades' = trades

\* the step after the last bar closes the position still open, if any
C4_AfterLoop ==
    AfterLoopStep =>
        IF position # None
        THEN /\ OneTradeAdded
             /\ Closes(LastTrade(trades'), position,
                       Iloc(bars, Len(bars) - 1).close, Len(bars) - 1)
             /\ capital' = capital + position.shares * Iloc(bars, Len(bars) - 1).close
             /\ LastTrade(trades').reason = "End of backtest"
        ELSE trades' = trades /\ capital' = capital

\* no other step of a run touches the trades
C4_Elsewhere == pc \in {"stats", "done"} => trades' = trades

C4_Count ==
    /\ pc = "loop" => Len(trades) = Opened - (IF position # None THEN 1 ELSE 0)
    /\ pc \in {"stats", "done"} /\ Len(bars) >= Warmup => Len(trades) = Opened

\* C4: over a backtest run one trade is appended for each closure of a
\* position and none otherwise: a bar that closes the open position, and the
\* step after the last bar when a position is still open, append exactly one
\* trade, which carries the entry price, shares and entry time of the position
\* closed, the close of the closing bar as exit price, pnl = (exit_price -
\* entry_price) * shares and one of the four exit reasons, while cash is
\* credited shares * exit_price; every other step leaves the trades as they
\* are; so the trades number the positions opened less the one still open, and
\* at the end of the run exactly the positions opened.
C4_OneTradePerClosure ==
    /\ [](C4_Count)
    /\ [][C4_OnBar /\ C4_AfterLoop /\ C4_Elsewhere]_vars

\* a run has ended with two positions opened and two trades, the first closed
\* on a bar and the second after the last bar
C4_Witness ==
    /\ pc = "done"
    /\ Opened = 2
    /\ Len(trades) = 2
    /\ trades[1].reason \in {"SELL signal", "Stop-loss", "Take-profit"}
    /\ trades[2].reason = "End of backtest"

\* ------------------------------------------------------------------------
\* C5
\* ------------------------------------------------------------------------
C5_ForcedClose ==
    AfterLoopStep /\ position # None =>
        /\ OneTradeAdded
        /\ LastTrade(trades').reason = "End of backtest"
        /\ LastTrade(trades').exit_price = Iloc(bars, Len(bars) - 1).close
        /\ LastTrade(trades').exit_date = Len(bars) - 1
        /\ LastTrade(trades').entry_date = position.entry_date
        /\ LastTrade(trades').shares = position.shares
        /\ capital' = capital + position.shares * Iloc(bars, Len(bars) - 1).close

\* once the loop is left, trades and cash no longer change
C5_Once == pc \in {"stats", "done"} => trades' = trades /\ capital' = capital

C5_EndsFlat ==
    pc \in {"stats", "done"} /\ Len(bars) >= Warmup =>
        /\ Opened = Len(trades)
        /\ \A k \in 1..Len(trades) :
               trades[k].reason = "End of backtest" => k = Len(trades)
        /\ pc = "done" /\ trades # <<>> =>
               results # None /\ results.final_capital = capital

\* C5: when the last bar has been replayed and a position is still open, it
\* is closed once, with reason END_OF_WINDOW, at the close of the last bar,
\* also when it was opened on the last bar; after that neither trades nor cash
\* change; so a completed run has every position it opened closed by a trade,
\* at most one of them (the last) by the forced close, and the final_capital
\* it reports is the cash after that close.
C5_ForceCloseAtEnd ==
    /\ [](C5_EndsFlat)
    /\ [][C5_ForcedClose /\ C5_Once]_vars

\* a run has ended whose position was opened on the last bar and closed by
\* the forced close
C5_Witness ==
    /\ pc = "done"
    /\ results # None
    /\ LastTrade(trades).reason = "End of backtest"
    /\ LastTrade(trades).entry_date = Len(bars) - 1

\* ------------------------------------------------------------------------
\* C6
\* ------------------------------------------------------------------------
\* C6 as stated: a run over at least Warmup bars on which every signal is
\* HOLD returns a report with total_trades = 0, win_rate = 0, final_capital
\* equal to initial_capital and max_drawdown = 0.
C6_Original ==
    pc = "done" /\ Len(bars) >= Warmup /\ (\A k \in 1..Len(signals) : signals[k] = "HOLD") =>
        /\ results # None
        /\ results.total_trades = 0
        /\ results.win_rate[1] = 0
        /\ results.final_capital = results.initial_capital
        /\ results.max_drawdown[1] = 0

\* ------------------------------------------------------------------------
\* C7
\* ------------------------------------------------------------------------
\* the weights of the six conditions, in half points: 2, 2, 1.5, 2, 1.5, 1
C7_Weight ==
    [rsi |-> 4, macd |-> 4, bollinger |-> 3, ema |-> 4, volume |-> 3, trend |-> 2]

\* the conditions that are true on the buy side and on the sell side for the
\* rows l (current) and p (previous)
C7_BuyTrue(l, p) ==
    {c \in DOMAIN C7_Weight :
        \/ c = "rsi" /\ Lt(l.rsi, 30 * Scale)
        \/ c = "macd" /\ Gt(l.macd, l.macd_signal) /\ Le(p.macd, p.macd_signal)
        \/ c = "bollinger" /\ Lt(l.close, l.bb_lower)
        \/ c = "ema" /\ Gt(l.ema_fast, l.ema_slow) /\ Le(p.ema_fast, p.ema_slow)
        \/ c = "volume" /\ l.volume_signal = 1
        \/ c = "trend" /\ Gt(l.close, l.ema_slow)}

C7_SellTrue(l, p) ==
    {c \in DOMAIN C7_Weight :
        \/ c = "rsi" /\ Gt(l.rsi, 70 * Scale)
        \/ c = "macd" /\ Lt(l.macd, l.macd_signal) /\ Ge(p.macd, p.macd_signal)
        \/ c = "bollinger" /\ Gt(l.close, l.bb_upper)
        \/ c = "ema" /\ Lt(l.ema_fast, l.ema_slow) /\ Ge(p.ema_fast, p.ema_slow)
        \/ c = "volume" /\ l.volume_signal = -1
        \/ c = "trend" /\ Lt(l.close, l.ema_slow)}

RECURSIVE C7_Total(_)
C7_Total(conds) ==
    IF conds = {} THEN 0
    ELSE LET c == CHOOSE x \in conds : TRUE
         IN C7_Weight[c] + C7_Total(conds \ {c})

\* C7: with buy_score and sell_score the sums of the weights (RSI 2, MACD
\* crossover 2, Bollinger 1.5, EMA crossover 2, volume 1.5, trend 1) of the
\* conditions true for the current and previous rows, the scorer returns BUY
\* exactly when buy_score >= 5 and buy_score > sell_score, SELL exactly when
\* sell_score >= 5 and sell_score > buy_score, and HOLD otherwise; equal
\* scores yield HOLD, and the BUY and SELL rules never hold together.
C7_DecisionRule ==
    pc = "scorer" /\ signal # "" =>
        LET buy == C7_Total(C7_BuyTrue(latest_row, prev_row))
            sell == C7_Total(C7_SellTrue(latest_row, prev_row))
        IN /\ signal \in {"BUY", "SELL", "HOLD"}
           /\ signal = "BUY" <=> (buy >= 10 /\ buy > sell)
           /\ signal = "SELL" <=> (sell >= 10 /\ sell > buy)
           /\ buy = sell => signal = "HOLD"
           /\ ~((buy >= 10 /\ buy > sell) /\ (sell >= 10 /\ sell > buy))

\* the scorer has returned HOLD on rows that score 5 on both sides
C7_Witness ==
    /\ pc = "scorer"
    /\ signal = "HOLD"
    /\ buy_score(latest_row, prev_row) = 10
    /\ sell_score(latest_row, prev_row) = 10

\* ------------------------------------------------------------------------
\* C8
\* ------------------------------------------------------------------------
\* an indicator value the scorer reads in the rows of the frame is missing
C8_Missing(frame) ==
    LET rows == LatestRows(frame)
    IN \/ \E v \in {rows.latest.rsi, rows.latest.macd, rows.latest.macd_signal,
                    rows.latest.bb_upper, rows.latest.bb_lower,
                    rows.latest.ema_fast, rows.latest.ema_slow} : IsNaN(v)
       \/ \E v \in {rows.prev.macd, rows.prev.macd_signal,
                    rows.prev.ema_fast, rows.prev.ema_slow} : IsNaN(v)

\* C8 as stated: whenever an indicator value of the current or previous row
\* that the scorer reads is missing, generate_signal returns HOLD, for the
\* frames of the backtest and for every non-empty frame of the live driver.
C8_Original ==
    /\ pc = "live" /\ last_tick # None /\ last_tick.bars # <<>>
          /\ (Len(last_tick.bars) < 2 \/ C8_Missing(last_tick.bars)) =>
              last_tick.signal = "HOLD"
    /\ pc = "loop" /\ signals # <<>> /\ C8_Missing(SignalWindow(bars, i - 1)) =>
           signals[Len(signals)] = "HOLD"

\* ------------------------------------------------------------------------
\* C9
\* ------------------------------------------------------------------------
\* n = floor(cash * POSITION_SIZE_PCT / price), by its two inequalities
C9_IsFloor(n, cash, price) ==
    /\ n * POSITION_SIZE_DEN * price <= cash
    /\ cash < (n + 1) * POSITION_SIZE_DEN * price

C9_Backtest ==
    BarStep /\ StepSignal = "BUY" /\ position = None =>
        IF capital < POSITION_SIZE_DEN * StepPrice
        THEN position' = None /\ capital' = capital /\ trades' = trades /\ log' = log
        ELSE /\ position' # None
             /\ C9_IsFloor(position'.shares, capital, StepPrice)
             /\ position'.entry_price = StepPrice
             /\ position'.entry_date = i
             /\ capital' = capital - position'.shares * StepPrice
             /\ trades' = trades

\* the live driver sizes its order the same way on the account's buying power
C9_Live ==
    TickStep /\ last_tick'.branch = "buy" /\ last_tick'.account # None =>
        IF last_tick'.account.buying_power < POSITION_SIZE_DEN * TickPrice(last_tick')
        THEN orders' = orders /\ active_positions' = active_positions
        ELSE /\ Len(orders') = Len(orders) + 1
             /\ orders'[Len(orders')].request.side = "BUY"
             /\ C9_IsFloor(orders'[Len(orders')].request.qty,
                           last_tick'.account.buying_power, TickPrice(last_tick'))

C9_WholeShares == position # None => position.shares \in Nat \ {0}

\* C9: a BUY bar while no position is open opens a position of
\* floor(capital * position_size_fraction / close) shares at the close of the
\* bar and debits shares * close from the cash; when that number is below 1
\* position, cash and trades stay as they are; the live driver sizes its BUY
\* order by the same rule on the buying power and submits nothing when the
\* size is below 1.  So an open position always has a whole number of shares,
\* at least 1.
C9_PositionSizing ==
    /\ [](C9_WholeShares)
    /\ [][C9_Backtest /\ C9_Live]_vars

\* with a capital of 1000 a BUY bar at a close above 100 has bought nothing,
\* and a later BUY bar at a lower close has opened a position of one share
C9_Witness ==
    /\ pc = "loop"
    /\ position # None
    /\ position.shares = 1
    /\ \E k \in 1..Len(signals) :
           signals[k] = "BUY" /\ Warmup + k - 1 < position.entry_date
    /\ trades = <<>>

\* ------------------------------------------------------------------------
\* C10
\* ------------------------------------------------------------------------
\* the two series agree on the bars 0..k
C10_AgreeThrough(a, b, k) ==
    /\ k < Len(a)
    /\ k < Len(b)
    /\ \A j \in 0..k : Iloc(a, j) = Iloc(b, j)

\* C10: two replays from the same capital whose series agree on the bars 0..k
\* have, after bar k, the same signals, position, cash, trades and equity
\* snapshots, whatever the bars after k are; the replay starts at index
\* Warmup and has computed one signal per bar replayed.
C10_Causality ==
    pc = "causal-loop" =>
        /\ i >= Warmup
        /\ Len(signals) = i - Warmup
        /\ i > Warmup /\ C10_AgreeThrough(bars, bars_b, i - 1) =>
               /\ signals = ledger_b.signals
               /\ position = ledger_b.position
               /\ capital = ledger_b.capital
               /\ trades = ledger_b.trades
               /\ equity_curve = ledger_b.equity_curve

\* two replays hold the same position after the bars they share, and their
\* series differ at the next bar
C10_Witness ==
    /\ pc = "causal-loop"
    /\ i > Warmup
    /\ C10_AgreeThrough(bars, bars_b, i - 1)
    /\ i < Len(bars)
    /\ i < Len(bars_b)
    /\ Iloc(bars, i) # Iloc(bars_b, i)
    /\ position # None

\* ------------------------------------------------------------------------
\* C11
\* ------------------------------------------------------------------------
\* a bar appends the snapshot of the ledger as the bar leaves it
C11_OnBar ==
    BarStep =>
        equity_curve' =
            Append(equity_curve,
                   [date |-> i,
                    equity |-> capital' + (IF position' # None
                                           THEN position'.shares * StepPrice
                                           ELSE 0)])

\* no other step of a run touches the snapshots
C11_Elsewhere == pc \in {"stats", "done"} \/ AfterLoopStep => equity_curve' = equity_curve

C11_OnePerBar ==
    /\ pc = "loop" => Len(equity_curve) = i - Warmup
    /\ pc \in {"stats", "done"} /\ Len(bars) >= Warmup =>
           Len(equity_curve) = Len(bars) - Warmup
    /\ pc \in {"loop", "stats", "done"} =>
           \A k \in 1..Len(equity_curve) : equity_curve[k].date = Warmup + k - 1
    /\ pc = "done" /\ results # None => results.equity_curve = equity_curve

\* C11: a backtest over n >= 100 bars records one equity snapshot per bar
\* replayed, n - 100 in all, in bar order; the equity of a snapshot is the
\* cash after the bar's ledger transition plus shares * close of the bar when
\* a position is open after the transition, and the cash alone otherwise; the
\* step after the last bar and the statistics add none.
C11_EquitySnapshots ==
    /\ [](C11_OnePerBar)
    /\ [][C11_OnBar /\ C11_Elsewhere]_vars

\* a run has ended with a snapshot per bar, one of them taken while a
\* position was open at a close other than its entry price
C11_Witness ==
    /\ pc = "done"
    /\ Len(equity_curve) = Len(bars) - Warmup
    /\ Len(equity_curve) >= 2
    /\ \E k \in 1..Len(equity_curve), t \in 1..Len(trades) :
           /\ trades[t].entry_date < equity_curve[k].date
           /\ equity_curve[k].date < trades[t].exit_date
           /\ Iloc(bars, equity_curve[k].date).close # trades[t].entry_price

\* ------------------------------------------------------------------------
\* C12
\* ------------------------------------------------------------------------
\* the side of the call is neither 'buy' nor 'sell', in any letter case
C12_UnknownSide(call) == Lower(call.side) \notin {"buy", "sell"}

\* the call asks for a limit order and gives no limit price
C12_LimitWithoutPrice(call) == call.order_type = "limit" /\ call.limit_price = NoPrice

\* C12 as stated: a call of place_order for a limit order with no limit
\* price, or with a side that is neither 'buy' nor 'sell', returns failure
\* and hands nothing to submit_order.
C12_Original ==
    pc = "ordered" /\ (C12_LimitWithoutPrice(order_call) \/ C12_UnknownSide(order_call)) =>
        order_returned = None /\ orders = <<>>

\* ------------------------------------------------------------------------
\* C13
\* ------------------------------------------------------------------------
\* a tick whose bar fetch returned nothing or whose position lookup failed
\* submits no order and leaves the driver's record as it is
C13_Skipped ==
    TickStep /\ (last_tick'.bars = <<>> \/ ~last_tick'.lookup_ok) =>
        orders' = orders /\ active_positions' = active_positions

\* no BUY order is submitted on a tick while the broker holds a position
C13_NoSecondBuy ==
    TickStep /\ broker_position # None =>
        \/ orders' = orders
        \/ orders'[Len(orders')].request.side # "BUY"

\* C13 as stated: a tick of the live handler on which the bar fetch returns
\* nothing or the position lookup fails is skipped, with no order placed and
\* the active-position record unchanged; so a failed lookup while a position
\* is open never leads to a second BUY.
C13_Original == [][C13_Skipped /\ C13_NoSecondBuy]_vars

\* ------------------------------------------------------------------------
\* C14
\* ------------------------------------------------------------------------
\* nothing has been simulated: no signal, position, trade or snapshot
C14_NothingSimulated ==
    /\ signals = <<>>
    /\ position = None
    /\ trades = <<>>
    /\ equity_curve = <<>>
    /\ log = <<>>

\* the first step of a run: too short a series ends it at once, a series of
\* Warmup bars or more enters the loop at index Warmup
C14_FirstStep ==
    pc = "start" /\ pc' # "start" =>
        IF Len(bars) < Warmup
        THEN pc' = "done" /\ results' = None /\ C14_NothingSimulated'
        ELSE pc' = "loop" /\ i' = Warmup /\ capital' = initial_capital
             /\ C14_NothingSimulated'

\* the first bar replayed is the bar of index Warmup
C14_FirstBar == BarStep /\ signals = <<>> => i = Warmup /\ Len(signals') = 1

C14_Rejected ==
    /\ pc \in {"loop", "stats"} => Len(bars) >= Warmup
    /\ pc = "done" /\ Len(bars) < Warmup => results = None /\ C14_NothingSimulated

\* C14: a series of fewer than 100 bars, or no series, makes run_backtest
\* return no result without replaying a bar: no signal is computed, no
\* position opened, no trade and no equity snapshot recorded; a series of 100
\* bars or more is accepted, and its replay starts at the bar of index 100.
C14_MinimumLength ==
    /\ [](C14_Rejected)
    /\ [][C14_FirstStep /\ C14_FirstBar]_vars

\* a run on a series of 99 bars has returned
C14_Witness ==
    /\ pc = "done"
    /\ Len(bars) = Warmup - 1
    /\ results = None

\* ------------------------------------------------------------------------
\* C15
\* ------------------------------------------------------------------------
RECURSIVE C15_SumPnl(_, _)
\* the sum of pnl over the first k trades
C15_SumPnl(trds, k) == IF k = 0 THEN 0 ELSE C15_SumPnl(trds, k - 1) + trds[k].pnl

\* what the open position cost: shares * entry_price, 0 when every position
\* opened has been closed
C15_CostHeld ==
    IF Opened > Len(trades) THEN position.shares * position.entry_price ELSE 0

\* C15: after every bar of a backtest, and after the close that follows the
\* last bar, cash + shares * entry_price of the open position (0 when none is
\* open) equals initial_capital plus the sum of pnl over the trades recorded
\* so far, and cash is never negative; so the final_capital a run reports is
\* initial_capital plus the sum of pnl over all its trades.
C15_Accounting ==
    pc \in {"loop", "stats", "done"} /\ Len(bars) >= Warmup =>
        /\ capital + C15_CostHeld = initial_capital + C15_SumPnl(trades, Len(trades))
        /\ capital >= 0
        /\ pc = "done" /\ trades # <<>> =>
               /\ results # None
               /\ results.final_capital =
                      results.initial_capital + C15_SumPnl(results.trades, Len(results.trades))

\* a position is open after a bar, and an earlier one was closed at a loss
\* or a profit
C15_Witness ==
    /\ pc = "loop"
    /\ position # None
    /\ trades # <<>>
    /\ trades[1].pnl # 0
    /\ capital # initial_capital
====
